---- MODULE Spec2Model ----
(***************************************************************************)
(* Model of the catalog builder of course-json-loader:                     *)
(*   courseLoader.extract_course_metadata  (flat catalog, directory-based  *)
(*   classification, merge by course_code) and                             *)
(*   courseLoader.run_course_loader        (programmatic entry point).     *)
(*                                                                         *)
(* Text that the code concatenates, compares, sorts, lower-cases or        *)
(* percent-encodes (course codes, folder names, path segments, links) is   *)
(* a sequence of code points, so that those conversions are computed.      *)
(* Text the code only copies (titles, descriptions, ...) is a TLA+ string. *)
(* Names of directory entries contain neither '/' nor '\': the code treats *)
(* both as path separators.                                                *)
(***************************************************************************)
EXTENDS Integers, Sequences, FiniteSets, TLC

VARIABLES
    readme,     \* README.md of the repository: NoReadme, Unreadable or [rows, links]
    dirs,       \* directories at the repository root: folder name -> set of file paths
    rootFiles,  \* names of the plain files at the repository root
    ownerRepo,  \* 'owner/repo' read from the git metadata, or NoneVal
    env,        \* how runs are started: with a URL or a local path, git-lfs installed,
                \* clones succeeding, the output file writable
    files,      \* output files: name -> Absent, Malformed or a list of course records
    baseline,   \* course.json as an operator last left it
    tempDirs,   \* number of temporary clone directories that exist
    last,       \* what the last step was and, for a run, how it ended
    runs,       \* number of runs started
    edits       \* number of edits made by the environment (repository, operator)

vars == <<readme, dirs, rootFiles, ownerRepo, env, files, baseline, tempDirs, last, runs, edits>>

(***************************************************************************)
(* Bounds of the exploration.                                              *)
(***************************************************************************)
MaxRuns == 2
MaxEdits == 1

(***************************************************************************)
(* Strings as sequences of code points.                                    *)
(***************************************************************************)
Slash == <<47>>
Backslash == <<92>>
Percent == <<37>>

sDot == <<46>>
sModules == <<77,111,100,117,108,101,115>>
sModulesLower == <<109,111,100,117,108,101,115>>
sReferences == <<82,101,102,101,114,101,110,99,101,115>>
sReferencesLower == <<114,101,102,101,114,101,110,99,101,115>>
sSyllabi == <<83,121,108,108,97,98,105>>
sSyllabiLower == <<115,121,108,108,97,98,105>>
sAssignments == <<65,115,115,105,103,110,109,101,110,116,115>>
sAssignmentsLower == <<97,115,115,105,103,110,109,101,110,116,115>>
sOther == <<79,116,104,101,114>>
sSub == <<115,117,98>>
sEXAM == <<69,88,65,77>>
sExamLower == <<101,120,97,109>>
sApdf == <<97,46,112,100,102>>
sBpdf == <<98,46,112,100,102>>
sExam1 == <<69,120,97,109,49,46,112,100,102>>
sHW1 == <<72,87,49,46,112,100,102>>
sNotes == <<110,46,116,120,116>>
sMain == <<109,97,105,110>>
sOwnerRepo == <<111,47,114>>
sRawHost == <<104,116,116,112,115,58,47,47,114,97,119,46,103,105,116,104,117,98,
              117,115,101,114,99,111,110,116,101,110,116,46,99,111,109,47>>

cCS2220 == <<67,83,45,50,50,50,48>>
cCS2220Alias == <<67,83,45,50,50,50,48,47,67,83,45,50,50,50,49>>
cCS3000 == <<67,83,45,51,48,48,48>>
cMTH1125 == <<77,84,72,45,49,49,50,53>>
cHIS1123 == <<72,73,83,45,49,49,50,51>>
cHIS1122 == <<72,73,83,45,49,49,50,50>>
cMTH1126 == <<77,84,72,45,49,49,50,54>>
cOLD100 == <<79,76,68,45,49,48,48>>
fCS2220 == <<67,83,32,50,50,50,48>>
fCS2220Quoted == <<67,83,37,50,48,50,50,50,48>>
fCS3000 == <<67,83,51,48,48,48>>

\* str.lower / str.upper on one code point (ASCII letters)
LowerChar(c) == IF c \in 65..90 THEN c + 32 ELSE c
UpperChar(c) == IF c \in 97..122 THEN c - 32 ELSE c
LowerStr(s) == [i \in 1..Len(s) |-> LowerChar(s[i])]
UpperStr(s) == [i \in 1..Len(s) |-> UpperChar(s[i])]

\* str.startswith
StartsWith(s, p) == Len(s) >= Len(p) /\ SubSeq(s, 1, Len(p)) = p

\* str.replace('\\', '/')
ReplaceBackslash(s) == [i \in 1..Len(s) |-> IF s[i] = Backslash[1] THEN Slash[1] ELSE s[i]]

\* s.split('/')[0]: the text before the first '/'
RECURSIVE FirstSegment(_)
FirstSegment(s) ==
    IF s = <<>> \/ Head(s) = Slash[1] THEN <<>>
    ELSE <<Head(s)>> \o FirstSegment(Tail(s))

\* s.split('/')
RECURSIVE SplitSlash(_)
SplitSlash(s) ==
    LET first == FirstSegment(s)
    IN  IF Len(first) = Len(s) THEN <<first>>
        ELSE <<first>> \o SplitSlash(SubSeq(s, Len(first) + 2, Len(s)))

\* '/'.join(segs)
RECURSIVE JoinSlash(_)
JoinSlash(segs) ==
    IF segs = <<>> THEN <<>>
    ELSE IF Len(segs) = 1 THEN segs[1]
    ELSE segs[1] \o Slash \o JoinSlash(Tail(segs))

\* Python's < on str: lexicographic by code point
StrLess(a, b) ==
    LET m == IF Len(a) < Len(b) THEN Len(a) ELSE Len(b)
        diff == {i \in 1..m : a[i] # b[i]}
    IN  IF diff = {} THEN Len(a) < Len(b)
        ELSE LET first == CHOOSE i \in diff : \A j \in diff : i <= j
             IN  a[first] < b[first]

StrLeq(a, b) == a = b \/ StrLess(a, b)

\* urllib.parse.quote(seg): unreserved characters are kept, the others become %XX
IsUnreserved(c) ==
    \/ c \in 48..57 \/ c \in 65..90 \/ c \in 97..122
    \/ c \in {45, 46, 95, 126, 47}
HexDigit(n) == IF n < 10 THEN 48 + n ELSE 55 + n
RECURSIVE Quote(_)
Quote(s) ==
    IF s = <<>> THEN <<>>
    ELSE (IF IsUnreserved(Head(s)) THEN <<Head(s)>>
          ELSE Percent \o <<HexDigit(Head(s) \div 16), HexDigit(Head(s) % 16)>>)
         \o Quote(Tail(s))

\* urllib.parse.unquote(s): %XX with two hex digits is decoded, anything else is kept
IsHex(c) == c \in 48..57 \/ c \in 65..70 \/ c \in 97..102
HexVal(c) == IF c \in 48..57 THEN c - 48 ELSE IF c \in 65..70 THEN c - 55 ELSE c - 87
RECURSIVE Unquote(_)
Unquote(s) ==
    IF s = <<>> THEN <<>>
    ELSE IF Head(s) = Percent[1] /\ Len(s) >= 3 /\ IsHex(s[2]) /\ IsHex(s[3])
         THEN <<16 * HexVal(s[2]) + HexVal(s[3])>> \o Unquote(SubSeq(s, 4, Len(s)))
         ELSE <<Head(s)>> \o Unquote(Tail(s))

\* str.isdigit and int(str) on a decimal numeral
IsDigitStr(s) == s # <<>> /\ \A i \in 1..Len(s) : s[i] \in 48..57
RECURSIVE ToInt(_)
ToInt(s) == IF s = <<>> THEN 0 ELSE 10 * ToInt(SubSeq(s, 1, Len(s) - 1)) + (s[Len(s)] - 48)

(***************************************************************************)
(* Values that stand for "no value", and the states of a file.             *)
(***************************************************************************)
NoneVal == <<>>      \* None where the code only tests truthiness ('' behaves alike)
Absent == [state |-> "absent", data |-> <<>>]
Malformed == [state |-> "malformed", data |-> <<>>]
Json(list) == [state |-> "json", data |-> list]
NoReadme == [state |-> "absent", rows |-> <<>>, links |-> <<>>]
Unreadable == [state |-> "unreadable", rows |-> <<>>, links |-> <<>>]
ReadmeText(rows, links) == [state |-> "text", rows |-> rows, links |-> links]

(***************************************************************************)
(* Insertion-ordered dict: a sequence of [k, v] with distinct keys.        *)
(***************************************************************************)
Keys(d) == [i \in 1..Len(d) |-> d[i].k]
HasKey(d, key) == \E i \in 1..Len(d) : d[i].k = key
IndexOf(d, key) == CHOOSE i \in 1..Len(d) : d[i].k = key
\* d.get(key), with NoneVal for a missing key
DictGet(d, key) == IF HasKey(d, key) THEN d[IndexOf(d, key)].v ELSE NoneVal
\* d[key] = value: a present key keeps its position, a new key goes last
\* (faulty variant: an assignment to a present key moves the key to the end)
DictSetMoveToEnd(d, key, value) ==
    Append(SelectSeq(d, LAMBDA e : e.k # key), [k |-> key, v |-> value])
DictSet(d, key, value) ==
    IF HasKey(d, key)
    THEN [i \in 1..Len(d) |-> IF d[i].k = key THEN [k |-> key, v |-> value] ELSE d[i]]
    ELSE Append(d, [k |-> key, v |-> value])
\* list(d.values())
Values(d) == [i \in 1..Len(d) |-> d[i].v]

(***************************************************************************)
(* COURSE_TEMPLATE                                                         *)
(***************************************************************************)
COURSE_TEMPLATE ==
    [course_code |-> <<>>, title |-> "", credits |-> 0, prerequisites |-> <<>>,
     instructors |-> <<>>, description |-> "",
     current_term |-> FALSE, classes |-> <<>>, grading_policy |-> "",
     modules |-> <<>>, textbooks |-> <<>>, reference_materials |-> <<>>,
     exam_dates |-> {}, syllabi |-> <<>>,
     assignments |-> <<>>, exams |-> <<>>]

ReadmeFields == {"course_code", "title", "credits", "prerequisites"}
OperatorFields == {"instructors", "description", "current_term", "classes",
                   "grading_policy", "textbooks", "exam_dates"}
LinkBuckets == {"modules", "reference_materials", "syllabi"}
PathBuckets == {"assignments", "exams"}
Buckets == LinkBuckets \cup PathBuckets

(***************************************************************************)
(* README parsing.  The README is held as the lines the two regular        *)
(* expressions match: table rows as their four captured cells (stripped),  *)
(* the prerequisites cell as its pieces between the word 'and'; link       *)
(* reference lines as label and folder path.                               *)
(***************************************************************************)
RECURSIVE ParseRows(_, _)
ParseRows(rows, courses) ==
    IF rows = <<>> THEN courses
    ELSE LET row == Head(rows)
             primary_code == SplitSlash(row.code_raw)[1]
             details == [full_code |-> row.code_raw,
                         title |-> row.title,
                         credits |-> IF IsDigitStr(row.credits_str)
                                     THEN ToInt(row.credits_str) ELSE 0,
                         prerequisites |-> row.prereqs]
         IN  ParseRows(Tail(rows), DictSet(courses, primary_code, details))

parse_course_table_from_readme(readme_content) == ParseRows(readme_content.rows, <<>>)

RECURSIVE ParseLinks(_, _)
ParseLinks(links, link_map) ==
    IF links = <<>> THEN link_map
    ELSE LET ref == Head(links)
         IN  ParseLinks(Tail(links), DictSet(link_map, ref.label, Unquote(ref.path)))

parse_link_references_from_readme(readme_content) == ParseLinks(readme_content.links, <<>>)

(***************************************************************************)
(* Raw links                                                               *)
(***************************************************************************)
RECURSIVE QuoteSegments(_)
QuoteSegments(segs) ==
    IF segs = <<>> THEN <<>> ELSE <<Quote(Head(segs))>> \o QuoteSegments(Tail(segs))

_build_raw_url(owner_repo, branch, path_in_repo) ==
    sRawHost \o owner_repo \o Slash \o branch \o Slash
        \o JoinSlash(QuoteSegments(SplitSlash(path_in_repo)))

make_raw(owner_repo, branch, course_folder_name, path_inside_course) ==
    IF owner_repo # NoneVal
    THEN _build_raw_url(owner_repo, branch,
                        ReplaceBackslash(course_folder_name \o Slash \o path_inside_course))
    ELSE ReplaceBackslash(path_inside_course)

(***************************************************************************)
(* The directory walk.  A file of a course folder is its path below the    *)
(* folder, a non-empty sequence of names (directories, then the file       *)
(* name).  os.walk lists a directory's own files before it descends, and   *)
(* each subtree in one piece; the order among siblings is the file         *)
(* system's.                                                               *)
(***************************************************************************)
DirOf(p) == SubSeq(p, 1, Len(p) - 1)

RECURSIVE Perms(_)
Perms(S) ==
    IF S = {} THEN {<<>>}
    ELSE UNION {{<<x>> \o rest : rest \in Perms(S \ {x})} : x \in S}

\* The orders in which os.walk can yield the files below one directory:
\* its own files in some order, then its subdirectories in some order, each
\* walked the same way.
RECURSIVE WalkOrders(_), SubtreeOrders(_, _)
WalkOrders(fileSet) ==
    LET own == {p \in fileSet : Len(p) = 1}
        subdirs == {p[1] : p \in fileSet \ own}
    IN  {first \o rest : first \in Perms(own),
                         rest \in UNION {SubtreeOrders(order, fileSet) :
                                            order \in Perms(subdirs)}}
SubtreeOrders(order, fileSet) ==
    IF order = <<>> THEN {<<>>}
    ELSE LET d == Head(order)
             below == {Tail(p) : p \in {q \in fileSet : Len(q) > 1 /\ q[1] = d}}
             walks == {[i \in 1..Len(w) |-> <<d>> \o w[i]] : w \in WalkOrders(below)}
         IN  {w \o rest : w \in walks, rest \in SubtreeOrders(Tail(order), fileSet)}

\* os.path.relpath(root, course_path).replace('\\', '/')
RelDir(p) == IF DirOf(p) = <<>> THEN sDot ELSE ReplaceBackslash(JoinSlash(DirOf(p)))
\* os.path.relpath(os.path.join(root, fname), course_path).replace('\\', '/')
RelPath(p) == ReplaceBackslash(JoinSlash(p))
TopLevel(p) == IF RelDir(p) # sDot THEN SplitSlash(RelDir(p))[1] ELSE sDot
BaseName(p) == p[Len(p)]

(***************************************************************************)
(* Classification of one file into the buckets of the record.              *)
(***************************************************************************)
LinkEntry(p, owner_repo, branch, course_folder_name) ==
    [filename |-> RelPath(p),
     raw_link |-> make_raw(owner_repo, branch, course_folder_name, RelPath(p)),
     link |-> ""]

\* base.upper().startswith('EXAM')
\* (faulty variant: the prefix is compared as written)
IsExamCaseSensitive(base) == StartsWith(base, sEXAM)
IsExam(base) == StartsWith(UpperStr(base), sEXAM)

ClassifyFile(record, p, owner_repo, branch, course_folder_name) ==
    LET top == LowerStr(TopLevel(p))
        entry == LinkEntry(p, owner_repo, branch, course_folder_name)
    IN  IF top = sModulesLower
        THEN [record EXCEPT !.modules = Append(@, entry)]
        ELSE IF top = sReferencesLower
        THEN [record EXCEPT !.reference_materials = Append(@, entry)]
        ELSE IF top = sSyllabiLower
        THEN [record EXCEPT !.syllabi = Append(@, entry)]
        ELSE IF top = sAssignmentsLower
        THEN IF IsExam(BaseName(p))
             THEN [record EXCEPT !.exams = Append(@, RelPath(p))]
             ELSE [record EXCEPT !.assignments = Append(@, RelPath(p))]
        ELSE record

RECURSIVE WalkCourse(_, _, _, _, _)
WalkCourse(record, walk, owner_repo, branch, course_folder_name) ==
    IF walk = <<>> THEN record
    ELSE WalkCourse(ClassifyFile(record, Head(walk), owner_repo, branch, course_folder_name),
                    Tail(walk), owner_repo, branch, course_folder_name)

(***************************************************************************)
(* De-duplicate and sort                                                   *)
(***************************************************************************)
\* list(dict.fromkeys(lst)): first occurrences, in order
RECURSIVE DedupFirst(_)
DedupFirst(lst) ==
    IF lst = <<>> THEN <<>>
    ELSE LET front == DedupFirst(SubSeq(lst, 1, Len(lst) - 1))
             x == lst[Len(lst)]
         IN  IF \E i \in 1..Len(front) : front[i] = x THEN front ELSE Append(front, x)

\* sorted(lst) on strings (stable)
RECURSIVE SortStrings(_)
SortStrings(lst) ==
    IF lst = <<>> THEN <<>>
    ELSE LET front == SortStrings(SubSeq(lst, 1, Len(lst) - 1))
             x == lst[Len(lst)]
             n == Cardinality({i \in 1..Len(front) : StrLeq(front[i], x)})
         IN  SubSeq(front, 1, n) \o <<x>> \o SubSeq(front, n + 1, Len(front))

\* (faulty variant: de-duplicated, left in walk order)
_dedup_sort_list_Unsorted(lst) == DedupFirst(lst)
_dedup_sort_list(lst) == SortStrings(DedupFirst(lst))

\* the loop with the seen set: the first entry of each (filename, raw_link) key
RECURSIVE DedupByKey(_)
DedupByKey(lst) ==
    IF lst = <<>> THEN <<>>
    ELSE LET front == DedupByKey(SubSeq(lst, 1, Len(lst) - 1))
             x == lst[Len(lst)]
         IN  IF \E i \in 1..Len(front) :
                    front[i].filename = x.filename /\ front[i].raw_link = x.raw_link
             THEN front ELSE Append(front, x)

\* out.sort(key=lambda x: x.get('filename', '')) (stable)
RECURSIVE SortByFilename(_)
SortByFilename(lst) ==
    IF lst = <<>> THEN <<>>
    ELSE LET front == SortByFilename(SubSeq(lst, 1, Len(lst) - 1))
             x == lst[Len(lst)]
             n == Cardinality({i \in 1..Len(front) : StrLeq(front[i].filename, x.filename)})
         IN  SubSeq(front, 1, n) \o <<x>> \o SubSeq(front, n + 1, Len(front))

\* (faulty variant: de-duplicated, left in walk order)
_dedup_sort_obj_list_WalkOrder(lst) == DedupByKey(lst)
_dedup_sort_obj_list(lst) == SortByFilename(DedupByKey(lst))

(***************************************************************************)
(* The merge of one course, and the loop over the README's courses.        *)
(***************************************************************************)
special_codes == {cMTH1125, cHIS1123, cHIS1122, cMTH1126}

\* os.listdir(repo_path), as far as course folders are concerned
ListDir(d, rf) == DOMAIN d \cup rf

\* The folder of a course, or NoneVal when the loop skips the course.
\* (faulty variant: the os.path.isdir test is left out)
ResolveFolderUnchecked(course_code, details, folder_map, d, rf) ==
    IF course_code \in special_codes
    THEN IF course_code \in ListDir(d, rf) THEN course_code ELSE NoneVal
    ELSE DictGet(folder_map, details.full_code)
ResolveFolder(course_code, details, folder_map, d, rf) ==
    LET course_folder_name ==
            IF course_code \in special_codes
            THEN IF course_code \in ListDir(d, rf) THEN course_code ELSE NoneVal
            ELSE DictGet(folder_map, details.full_code)
    IN  IF course_folder_name = NoneVal THEN NoneVal
        ELSE IF course_folder_name \notin DOMAIN d THEN NoneVal   \* not os.path.isdir
        ELSE course_folder_name

\* Create or reuse existing record.  A loaded record is a non-empty dict, so
\* 'not record' means that the code has no record yet.
\* (faulty variant: every processed course starts from the template)
ExistingOrNewFromTemplate(courses_by_code, course_code) == COURSE_TEMPLATE
ExistingOrNew(courses_by_code, course_code) ==
    IF HasKey(courses_by_code, course_code)
    THEN DictGet(courses_by_code, course_code)
    ELSE COURSE_TEMPLATE

\* Fill metadata from README
FillFromReadme(record, course_code, details) ==
    [record EXCEPT !.course_code = course_code,
                   !.title = details.title,
                   !.credits = details.credits,
                   !.prerequisites = details.prerequisites]

\* Reset content lists to rebuild from disk
\* (faulty variant: the lists of the loaded record are appended to)
ResetContentListsKept(record) == record
ResetContentLists(record) ==
    [record EXCEPT !.modules = <<>>,
                   !.reference_materials = <<>>,
                   !.syllabi = <<>>,
                   !.assignments = <<>>,
                   !.exams = <<>>]

\* the body of the loop for a course whose folder is there
ProcessCourse(courses_by_code, course_code, details, course_folder_name, walk, owner_repo, branch) ==
    LET record == ExistingOrNew(courses_by_code, course_code)
        filled == ResetContentLists(FillFromReadme(record, course_code, details))
        scanned == WalkCourse(filled, walk, owner_repo, branch, course_folder_name)
        final == [scanned EXCEPT !.modules = _dedup_sort_obj_list(@),
                                 !.reference_materials = _dedup_sort_obj_list(@),
                                 !.syllabi = _dedup_sort_obj_list(@),
                                 !.assignments = _dedup_sort_list(@),
                                 !.exams = _dedup_sort_list(@)]
    IN  DictSet(courses_by_code, course_code, final)

\* os.walk(course_path): nothing for a path that is not a directory
WalkOf(walks, folder) == IF folder \in DOMAIN walks THEN walks[folder] ELSE <<>>

\* for course_code, details in course_details_map.items(): ...
RECURSIVE ProcessCourses(_, _, _, _, _, _, _, _)
ProcessCourses(course_details_map, courses_by_code, folder_map, d, rf, walks, owner_repo, branch) ==
    IF course_details_map = <<>> THEN courses_by_code
    ELSE LET course_code == Head(course_details_map).k
             details == Head(course_details_map).v
             folder == ResolveFolder(course_code, details, folder_map, d, rf)
             next == IF folder = NoneVal THEN courses_by_code   \* continue
                     ELSE ProcessCourse(courses_by_code, course_code, details, folder,
                                        WalkOf(walks, folder), owner_repo, branch)
         IN  ProcessCourses(Tail(course_details_map), next, folder_map, d, rf, walks,
                            owner_repo, branch)

\* {course.get('course_code'): course for course in existing_courses_list}
\* (faulty variant: the first record of a code wins)
RECURSIVE IndexByCodeFirstWins(_, _)
IndexByCodeFirstWins(existing_courses_list, courses_by_code) ==
    IF existing_courses_list = <<>> THEN courses_by_code
    ELSE IndexByCodeFirstWins(Tail(existing_courses_list),
                     IF HasKey(courses_by_code, Head(existing_courses_list).course_code)
                     THEN courses_by_code
                     ELSE DictSet(courses_by_code, Head(existing_courses_list).course_code,
                                  Head(existing_courses_list)))
RECURSIVE IndexByCode(_, _)
IndexByCode(existing_courses_list, courses_by_code) ==
    IF existing_courses_list = <<>> THEN courses_by_code
    ELSE IndexByCode(Tail(existing_courses_list),
                     DictSet(courses_by_code, Head(existing_courses_list).course_code,
                             Head(existing_courses_list)))

LoadExisting(content) ==
    IF content.state = "json" THEN IndexByCode(content.data, <<>>) ELSE <<>>

\* _detect_default_branch
DetectedBranch == sMain

\* final_course_list, for a run that gets as far as the write
MergedCatalog(rd, d, rf, owner_repo, content, walks) ==
    Values(ProcessCourses(parse_course_table_from_readme(rd),
                          LoadExisting(content),
                          parse_link_references_from_readme(rd),
                          d, rf, walks, owner_repo, DetectedBranch))

(***************************************************************************)
(* extract_course_metadata(repo_url_or_path, output_file), as one step.    *)
(* The result is how the run ended, what the output file holds afterwards  *)
(* and whether a temporary clone directory is left behind.                 *)
(*   remote   the input starts with 'http' or 'git@'                       *)
(*   lfs      shutil.which('git-lfs') finds the tool                       *)
(*   cloneOk  Repo.clone_from succeeds                                     *)
(*   writeOk  open(output_file, 'w') succeeds                              *)
(***************************************************************************)
\* how the run ends before the merge loop, or "continue"
EarlyStatus(remote, lfs, cloneOk, content) ==
    IF remote /\ ~lfs THEN "nolfs"
    ELSE IF remote /\ ~cloneOk THEN "clonefail"
    ELSE IF readme.state = "absent" THEN "noreadme"
    ELSE IF readme.state = "unreadable" THEN "readme_raised"  \* f.read() raises
    ELSE IF content.state = "malformed" THEN "load_raised"    \* json.load raises
    ELSE "continue"

\* (faulty variant: a run that ends early has already truncated the output file)
ExtractOutcomeOpensFirst(remote, lfs, cloneOk, writeOk, walks, content) ==
    LET early == EarlyStatus(remote, lfs, cloneOk, content)
    IN  IF early \in {"nolfs", "clonefail", "noreadme"}
        THEN [status |-> early, content |-> IF writeOk THEN Json(<<>>) ELSE content,
              tempLeft |-> 0]
        ELSE IF early \in {"readme_raised", "load_raised"}
        THEN [status |-> early, content |-> content,
              tempLeft |-> IF remote THEN 1 ELSE 0]
        ELSE IF ~writeOk
        THEN [status |-> "writefail", content |-> content, tempLeft |-> 0]
        ELSE [status |-> "ok",
              content |-> Json(MergedCatalog(readme, dirs, rootFiles, ownerRepo,
                                             content, walks)),
              tempLeft |-> 0]
ExtractOutcome(remote, lfs, cloneOk, writeOk, walks, content) ==
    LET early == EarlyStatus(remote, lfs, cloneOk, content)
    IN  IF early \in {"nolfs", "clonefail", "noreadme"}
        THEN [status |-> early, content |-> content, tempLeft |-> 0]
        ELSE IF early \in {"readme_raised", "load_raised"}   \* nothing catches it
        THEN [status |-> early, content |-> content,
              tempLeft |-> IF remote THEN 1 ELSE 0]
        ELSE IF ~writeOk
        THEN [status |-> "writefail", content |-> content, tempLeft |-> 0]
        ELSE [status |-> "ok",
              content |-> Json(MergedCatalog(readme, dirs, rootFiles, ownerRepo,
                                             content, walks)),
              tempLeft |-> 0]

FatalStatuses == {"nolfs", "clonefail", "noreadme"}
RaisedStatuses == {"readme_raised", "load_raised"}

(***************************************************************************)
(* The repositories, READMEs and catalogs the exploration draws from.      *)
(***************************************************************************)
RowCSAlias == [code_raw |-> cCS2220Alias, title |-> "Numerical Methods",
               credits_str |-> <<51>>, prereqs |-> <<"MTH 1112", "MTH 1113">>]
RowCS == [code_raw |-> cCS2220, title |-> "Numerical Methods II",
          credits_str |-> <<52>>, prereqs |-> <<"CS 2210">>]
RowMTH == [code_raw |-> cMTH1125, title |-> "Calculus I",
           credits_str |-> <<84, 66, 68>>, prereqs |-> <<>>]
RowCS3000 == [code_raw |-> cCS3000, title |-> "Algorithms",
              credits_str |-> <<51>>, prereqs |-> <<>>]
LinkCSAlias == [label |-> cCS2220Alias, path |-> fCS2220Quoted]
LinkCS == [label |-> cCS2220, path |-> fCS2220Quoted]
LinkCS3000 == [label |-> cCS3000, path |-> fCS3000]

\* alias course, special course without link reference, course whose folder may be missing
Readme1 == ReadmeText(<<RowCSAlias, RowMTH, RowCS3000>>, <<LinkCSAlias, LinkCS3000>>)
\* other order; a course without link reference; two rows with primary code CS-2220
Readme2 == ReadmeText(<<RowMTH, RowCS3000, RowCSAlias, RowCS>>, <<LinkCS>>)
\* the CS courses have left the README
Readme3 == ReadmeText(<<RowMTH>>, <<>>)
InitReadmes == {Readme1, Readme2}
\* what an edit of the README leads to
EditedReadmes == {Readme3, NoReadme, Unreadable}

Folders == {fCS2220, cMTH1125, fCS3000}

\* the files an edit can add to a folder
FilePool ==
    {<<sReferences, sApdf>>, <<sSyllabi, sApdf>>, <<sAssignments, sHW1>>,
     <<sAssignmentsLower, sExamLower>>, <<sModules, sSub, sApdf>>, <<sOther, sExam1>>}

InitDirs ==
    (fCS2220 :> {<<sModules, sBpdf>>, <<sModules, sApdf>>, <<sExam1>>})
        @@ (cMTH1125 :> {<<sAssignments, sExam1>>})

GoneEntry == [filename |-> RelPath(<<sModules, sNotes>>),
              raw_link |-> RelPath(<<sModules, sNotes>>), link |-> "by hand"]

RecOld == [COURSE_TEMPLATE EXCEPT
              !.course_code = cOLD100, !.title = "Retired",
              !.description = "kept by hand",
              !.assignments = <<RelPath(<<sAssignments, sHW1>>),
                                RelPath(<<sAssignments, sExam1>>)>>]
RecCSFirst == [COURSE_TEMPLATE EXCEPT
              !.course_code = cCS2220, !.title = "Old title", !.credits = 1,
              !.instructors = <<"Dr. A">>, !.description = "first copy",
              !.modules = <<GoneEntry>>]
RecCSLast == [COURSE_TEMPLATE EXCEPT
              !.course_code = cCS2220, !.title = "Older title", !.credits = 2,
              !.instructors = <<"Dr. B">>, !.description = "second copy",
              !.current_term = TRUE, !.classes = <<"A">>, !.grading_policy = "curve",
              !.textbooks = <<"TB">>, !.exam_dates = {<<"midterm", "d1">>},
              !.modules = <<GoneEntry>>,
              !.exams = <<RelPath(<<sAssignments, sNotes>>)>>]

Catalog1 == Json(<<RecCSFirst, RecOld, RecCSLast>>)
InitCatalogs == {Absent, Catalog1, Malformed}

\* what an operator's edit puts into a field
EditValue ==
    [instructors |-> <<"Dr. C">>, description |-> "edited", current_term |-> TRUE,
     classes |-> <<"B", "C">>, grading_policy |-> "pass/fail",
     textbooks |-> <<"TB2">>, exam_dates |-> {<<"final", "d2">>}]

LocalMachine == [remote |-> FALSE, lfs |-> TRUE, cloneOk |-> TRUE, writable |-> TRUE]
Machines ==
    {LocalMachine,
     [LocalMachine EXCEPT !.writable = FALSE],
     [LocalMachine EXCEPT !.remote = TRUE],
     [LocalMachine EXCEPT !.remote = TRUE, !.lfs = FALSE],
     [LocalMachine EXCEPT !.remote = TRUE, !.cloneOk = FALSE]}

CliOutput == "course.json"
TempOutput == "_temp_course.json"
OutputFiles == {CliOutput, TempOutput}

NoReturn == [kind |-> "none", value |-> <<>>]
LastNone == [op |-> "none", remote |-> FALSE, out |-> CliOutput, status |-> "none",
             before |-> Absent, rerun |-> FALSE, ret |-> NoReturn]
LastEdit == [LastNone EXCEPT !.op = "edit"]

Init ==
    /\ readme \in InitReadmes
    /\ dirs = InitDirs
    /\ rootFiles = {}
    /\ ownerRepo = sOwnerRepo
    /\ env = LocalMachine
    /\ \E c \in InitCatalogs :
          /\ files = (CliOutput :> c) @@ (TempOutput :> Absent)
          /\ baseline = c
    /\ tempDirs = 0
    /\ last = LastNone
    /\ runs = 0
    /\ edits = 0

(***************************************************************************)
(* Runs                                                                    *)
(***************************************************************************)
\* for every folder, an order in which os.walk can yield its files
AllWalks ==
    LET orders == [f \in DOMAIN dirs |-> WalkOrders(dirs[f])]
    IN  {w \in [DOMAIN dirs -> UNION {orders[f] : f \in DOMAIN dirs}] :
            \A f \in DOMAIN dirs : w[f] \in orders[f]}
NoWalks == [f \in DOMAIN dirs |-> <<>>]

\* the second of two runs with the same input and output file, nothing edited between
IsRerun(remote, out, status) ==
    /\ last.op \in {"extract", "loader"}
    /\ last.status = "ok"
    /\ last.remote = remote
    /\ last.out = out
    /\ status = "ok"

\* the walks a run can see; a run that ends before the loop sees none
RunWalks(remote, content) ==
    IF EarlyStatus(remote, env.lfs, env.cloneOk, content) = "continue" /\ env.writable
    THEN AllWalks ELSE {NoWalks}

\* python courseLoader.py: extract_course_metadata(repo_to_scan), output 'course.json'
CliRun ==
    /\ runs < MaxRuns
    /\ \E walks \in RunWalks(env.remote, files[CliOutput]) :
          \E remote \in {env.remote} :
          \E res \in {ExtractOutcome(remote, env.lfs, env.cloneOk, env.writable, walks,
                                     files[CliOutput])} :
              /\ files' = [files EXCEPT ![CliOutput] = res.content]
              /\ tempDirs' = tempDirs + res.tempLeft
              /\ last' = [op |-> "extract", remote |-> remote, out |-> CliOutput,
                          status |-> res.status, before |-> files[CliOutput],
                          rerun |-> IsRerun(remote, CliOutput, res.status),
                          ret |-> NoReturn]
    /\ runs' = runs + 1
    /\ UNCHANGED <<readme, dirs, rootFiles, ownerRepo, env, baseline, edits>>

\* what run_course_loader hands to its caller after the run
LoaderReturn(status, content) ==
    IF status \in RaisedStatuses THEN [kind |-> "raised", value |-> <<>>]
    ELSE IF content.state = "json" THEN [kind |-> "returned", value |-> content.data]
    ELSE [kind |-> "raised", value |-> <<>>]      \* open() or json.load raises

\* run_course_loader(repo_url_or_path)
LoaderCall ==
    /\ runs < MaxRuns
    /\ \E walks \in RunWalks(env.remote, files[TempOutput]) :
          \E remote \in {env.remote} :
          \E res \in {ExtractOutcome(remote, env.lfs, env.cloneOk, env.writable, walks,
                                     files[TempOutput])} :
              /\ files' = [files EXCEPT ![TempOutput] = res.content]
              /\ tempDirs' = tempDirs + res.tempLeft
              /\ last' = [op |-> "loader", remote |-> remote, out |-> TempOutput,
                          status |-> res.status, before |-> files[TempOutput],
                          rerun |-> IsRerun(remote, TempOutput, res.status),
                          ret |-> LoaderReturn(res.status, res.content)]
    /\ runs' = runs + 1
    /\ UNCHANGED <<readme, dirs, rootFiles, ownerRepo, env, baseline, edits>>

(***************************************************************************)
(* The environment between runs                                            *)
(***************************************************************************)
\* An edit that no later run can see is left out.
CanEdit == edits < MaxEdits /\ runs < MaxRuns

\* an operator rewrites the operator-owned fields of one record of course.json
Revised(record) == [f \in DOMAIN record |->
                       IF f \in OperatorFields THEN EditValue[f] ELSE record[f]]
OperatorEdit ==
    /\ CanEdit
    /\ files[CliOutput].state = "json"
    /\ \E i \in 1..Len(files[CliOutput].data) :
          /\ files[CliOutput].data[i] # Revised(files[CliOutput].data[i])
          /\ files' = [files EXCEPT ![CliOutput].data[i] = Revised(@)]
    /\ baseline' = files'[CliOutput]
    /\ edits' = edits + 1
    /\ last' = LastEdit
    /\ UNCHANGED <<readme, dirs, rootFiles, ownerRepo, env, tempDirs, runs>>

ReadmeEdit ==
    /\ CanEdit
    /\ readme' \in EditedReadmes \ {readme}
    /\ edits' = edits + 1
    /\ last' = LastEdit
    /\ UNCHANGED <<dirs, rootFiles, ownerRepo, env, files, baseline, tempDirs, runs>>

AddFile ==
    /\ CanEdit
    /\ \E f \in DOMAIN dirs : \E p \in FilePool \ dirs[f] :
          dirs' = [dirs EXCEPT ![f] = @ \cup {p}]
    /\ edits' = edits + 1
    /\ last' = LastEdit
    /\ UNCHANGED <<readme, rootFiles, ownerRepo, env, files, baseline, tempDirs, runs>>

RemoveFile ==
    /\ CanEdit
    /\ \E f \in DOMAIN dirs : \E p \in dirs[f] : dirs' = [dirs EXCEPT ![f] = @ \ {p}]
    /\ edits' = edits + 1
    /\ last' = LastEdit
    /\ UNCHANGED <<readme, rootFiles, ownerRepo, env, files, baseline, tempDirs, runs>>

\* a folder is created empty, removed, or replaced by a plain file of its name
MakeFolder ==
    /\ CanEdit
    /\ \E f \in Folders \ DOMAIN dirs :
          /\ dirs' = dirs @@ (f :> {})
          /\ rootFiles' = rootFiles \ {f}
    /\ edits' = edits + 1
    /\ last' = LastEdit
    /\ UNCHANGED <<readme, ownerRepo, env, files, baseline, tempDirs, runs>>

RemoveFolder ==
    /\ CanEdit
    /\ \E f \in DOMAIN dirs, plain \in BOOLEAN :
          /\ dirs' = [g \in DOMAIN dirs \ {f} |-> dirs[g]]
          /\ rootFiles' = IF plain THEN rootFiles \cup {f} ELSE rootFiles
    /\ edits' = edits + 1
    /\ last' = LastEdit
    /\ UNCHANGED <<readme, ownerRepo, env, files, baseline, tempDirs, runs>>

\* the repository's origin remote is removed or set
GitRemoteEdit ==
    /\ CanEdit
    /\ ownerRepo' = IF ownerRepo = NoneVal THEN sOwnerRepo ELSE NoneVal
    /\ edits' = edits + 1
    /\ last' = LastEdit
    /\ UNCHANGED <<readme, dirs, rootFiles, env, files, baseline, tempDirs, runs>>

\* the next run is given the repository's URL or a local copy, on a machine with or
\* without git-lfs, with the remote reachable or not, the output file writable or not
MachineEdit ==
    /\ CanEdit
    /\ env' \in Machines \ {env}
    /\ edits' = edits + 1
    /\ last' = LastEdit
    /\ UNCHANGED <<readme, dirs, rootFiles, ownerRepo, files, baseline, tempDirs, runs>>

Edit ==
    \/ OperatorEdit
    \/ ReadmeEdit
    \/ AddFile
    \/ RemoveFile
    \/ MakeFolder
    \/ RemoveFolder
    \/ GitRemoteEdit
    \/ MachineEdit

\* runs of the command-line entry point
Next == CliRun \/ Edit
Spec == Init /\ [][Next]_vars

\* calls of the programmatic entry point
LoaderNext == LoaderCall \/ Edit
LoaderSpec == Init /\ [][LoaderNext]_vars

(***************************************************************************)
(* meta.py, the legacy variant: nested 'files' object, classification by   *)
(* file name, folders only through the link references.                    *)
(***************************************************************************)
META_COURSE_TEMPLATE ==
    [course_code |-> <<>>, title |-> "", credits |-> 0, prerequisites |-> <<>>,
     instructor |-> "", description |-> "", learning_outcomes |-> <<>>, term |-> "",
     classes |-> <<>>, grading_policy |-> "", textbooks |-> <<>>,
     reference_materials |-> <<>>, exam_dates |-> {}, contact |-> "",
     files |-> [syllabus |-> NoneVal, chapters |-> <<>>, books |-> <<>>,
                assignments |-> <<>>, exams |-> <<>>]]

\* the words and endings that the classification looks for in a lower-cased file name
LegacyWords ==
    [syllabus |-> <<115,121,108,108,97,98,117,115>>, chapter |-> <<99,104,97,112,116,101,114>>, book |-> <<98,111,111,107>>,
     assignment |-> <<97,115,115,105,103,110,109,101,110,116>>, prj |-> <<112,114,106>>, exam |-> <<101,120,97,109>>,
     midterm |-> <<109,105,100,116,101,114,109>>, final |-> <<102,105,110,97,108>>,
     pdf |-> <<46,112,100,102>>, md |-> <<46,109,100>>, doc |-> <<46,100,111,99>>, docx |-> <<100,111,99,120>>, pptx |-> <<46,112,112,116,120>>]

\* sub in s
Contains(s, sub) ==
    \E i \in 1..(Len(s) - Len(sub) + 1) : SubSeq(s, i, i + Len(sub) - 1) = sub
\* s.endswith(suffix)
EndsWith(s, suffix) ==
    Len(s) >= Len(suffix) /\ SubSeq(s, Len(s) - Len(suffix) + 1, Len(s)) = suffix

\* the if/elif chain on one file: 'files_metadata' after it
MetaClassifyFile(files_metadata, p) ==
    LET relative_path == RelPath(p)
        lower_file == LowerStr(BaseName(p))
        W == LegacyWords
    IN  IF /\ Contains(lower_file, W.syllabus)
           /\ \E e \in {W.pdf, W.md, W.doc, W.docx} : EndsWith(lower_file, e)
        THEN [files_metadata EXCEPT !.syllabus = relative_path]
        ELSE IF /\ Contains(lower_file, W.chapter)
                /\ \E e \in {W.pptx, W.pdf} : EndsWith(lower_file, e)
        THEN [files_metadata EXCEPT !.chapters = Append(@, relative_path)]
        ELSE IF EndsWith(lower_file, W.pdf) /\ Contains(lower_file, W.book)
        THEN [files_metadata EXCEPT !.books = Append(@, relative_path)]
        ELSE IF Contains(lower_file, W.assignment) \/ Contains(lower_file, W.prj)
        THEN [files_metadata EXCEPT !.assignments = Append(@, relative_path)]
        ELSE IF \/ Contains(lower_file, W.exam)
                \/ Contains(lower_file, W.midterm)
                \/ Contains(lower_file, W.final)
        THEN [files_metadata EXCEPT !.exams = Append(@, relative_path)]
        ELSE files_metadata

RECURSIVE MetaWalkCourse(_, _)
MetaWalkCourse(files_metadata, walk) ==
    IF walk = <<>> THEN files_metadata
    ELSE MetaWalkCourse(MetaClassifyFile(files_metadata, Head(walk)), Tail(walk))

\* sorted(list(set(lst)))
MetaSortedSet(lst) == SortStrings(DedupFirst(lst))

\* lines 149-190, for a course whose folder is there
MetaProcessCourse(courses_by_code, course_code, details, walk) ==
    LET current == IF HasKey(courses_by_code, course_code)
                   THEN DictGet(courses_by_code, course_code)
                   ELSE META_COURSE_TEMPLATE
        filled == [current EXCEPT !.course_code = course_code,
                                  !.title = details.title,
                                  !.credits = details.credits,
                                  !.prerequisites = details.prerequisites]
        reset == [filled.files EXCEPT !.chapters = <<>>, !.books = <<>>,
                                      !.assignments = <<>>, !.exams = <<>>]
        scanned == MetaWalkCourse(reset, walk)
        sorted == [scanned EXCEPT !.chapters = MetaSortedSet(@),
                                  !.books = MetaSortedSet(@),
                                  !.assignments = MetaSortedSet(@),
                                  !.exams = MetaSortedSet(@)]
    IN  DictSet(courses_by_code, course_code, [filled EXCEPT !.files = sorted])

\* for course_code, details in course_details_map.items(): ...
RECURSIVE MetaProcessCourses(_, _, _, _, _)
MetaProcessCourses(course_details_map, courses_by_code, folder_map, d, walks) ==
    IF course_details_map = <<>> THEN courses_by_code
    ELSE LET course_code == Head(course_details_map).k
             details == Head(course_details_map).v
             course_folder_name == DictGet(folder_map, details.full_code)
             next == IF course_folder_name = NoneVal THEN courses_by_code
                     ELSE IF course_folder_name \notin DOMAIN d THEN courses_by_code
                     ELSE MetaProcessCourse(courses_by_code, course_code, details,
                                            WalkOf(walks, course_folder_name))
         IN  MetaProcessCourses(Tail(course_details_map), next, folder_map, d, walks)

\* final_course_list: the loop over the README's courses is part of the branch
\* that finds no output file
MetaMergedCatalog(rd, d, content, walks) ==
    IF content.state = "json"
    THEN Values(IndexByCode(content.data, <<>>))
    ELSE Values(MetaProcessCourses(parse_course_table_from_readme(rd), <<>>,
                                   parse_link_references_from_readme(rd), d, walks))

\* meta.extract_course_metadata(repo_url_or_path, output_file), as one step
MetaOutcome(remote, cloneOk, writeOk, walks, content) ==
    IF remote /\ ~cloneOk
    THEN [status |-> "clonefail", content |-> content, tempLeft |-> 0]
    ELSE IF readme.state = "absent"
    THEN [status |-> "noreadme", content |-> content, tempLeft |-> 0]
    ELSE IF readme.state = "unreadable"
    THEN [status |-> "readme_raised", content |-> content,
          tempLeft |-> IF remote THEN 1 ELSE 0]
    ELSE IF content.state = "malformed"
    THEN [status |-> "load_raised", content |-> content,
          tempLeft |-> IF remote THEN 1 ELSE 0]
    ELSE IF ~writeOk
    THEN [status |-> "writefail", content |-> content, tempLeft |-> 0]
    ELSE [status |-> "ok", content |-> Json(MetaMergedCatalog(readme, dirs, content, walks)),
          tempLeft |-> 0]

\* a repository laid out for the legacy variant, and a catalog it wrote earlier
LegacyDirs ==
    (fCS2220 :> {<<<<115,121,108,108,97,98,117,115,46,112,100,102>>>>, <<sSub, <<83,121,108,108,97,98,117,115,46,109,100>>>>, <<<<67,104,97,112,116,101,114,49,46,112,100,102>>>>, <<sSub, <<84,101,120,116,98,111,111,107,46,112,100,102>>>>})
        @@ (fCS3000 :> {<<<<112,114,106,49,46,122,105,112>>>>, <<<<70,105,110,97,108,46,100,111,99,120>>>>})
LegacyRecord ==
    [META_COURSE_TEMPLATE EXCEPT
        !.course_code = cCS2220, !.title = "Old title", !.credits = 1,
        !.instructor = "Dr. A", !.description = "kept by hand",
        !.files = [syllabus |-> NoneVal, chapters |-> <<RelPath(<<<<99,104,97,112,116,101,114,48,46,112,100,102>>>>)>>,
                   books |-> <<>>, assignments |-> <<>>, exams |-> <<>>]]
LegacyCatalogs ==
    {Absent, Malformed,
     Json(<<LegacyRecord, [META_COURSE_TEMPLATE EXCEPT !.course_code = cOLD100]>>)}

MetaInit ==
    /\ readme \in InitReadmes
    /\ dirs = LegacyDirs
    /\ rootFiles = {}
    /\ ownerRepo = sOwnerRepo
    /\ env = LocalMachine
    /\ \E c \in LegacyCatalogs :
          /\ files = (CliOutput :> c) @@ (TempOutput :> Absent)
          /\ baseline = c
    /\ tempDirs = 0
    /\ last = LastNone
    /\ runs = 0
    /\ edits = 0

\* the walks a run of meta.py can see; only the branch for an absent file walks
MetaRunWalks(content) ==
    IF /\ MetaOutcome(env.remote, env.cloneOk, env.writable, NoWalks, content).status = "ok"
       /\ content.state = "absent"
    THEN AllWalks ELSE {NoWalks}

\* python meta.py: extract_course_metadata(repo_to_scan), output 'course.json'
MetaRun ==
    /\ runs < MaxRuns
    /\ \E walks \in MetaRunWalks(files[CliOutput]) :
          \E res \in {MetaOutcome(env.remote, env.cloneOk, env.writable, walks,
                                  files[CliOutput])} :
              /\ files' = [files EXCEPT ![CliOutput] = res.content]
              /\ tempDirs' = tempDirs + res.tempLeft
              /\ last' = [op |-> "meta", remote |-> env.remote, out |-> CliOutput,
                          status |-> res.status, before |-> files[CliOutput],
                          rerun |-> FALSE, ret |-> NoReturn]
    /\ runs' = runs + 1
    /\ UNCHANGED <<readme, dirs, rootFiles, ownerRepo, env, baseline, edits>>

\* runs of the legacy entry point
MetaNext == MetaRun \/ Edit
MetaSpec == MetaInit /\ [][MetaNext]_vars

(***************************************************************************)
(* What the properties below speak about.  After a run ('last.op' is a     *)
(* run) the repository is the one the run saw: every edit resets 'last'.   *)
(***************************************************************************)
AfterRun == last.op \in {"extract", "loader"}
Wrote == AfterRun /\ last.status = "ok"
WrittenList == files[last.out].data
LoadedList == last.before.data          \* empty when there was no output file

CodesOf(list) == [i \in 1..Len(list) |-> list[i].course_code]
Occurs(list, c) == \E i \in 1..Len(list) : list[i].course_code = c
CountOf(list, c) == Cardinality({i \in 1..Len(list) : list[i].course_code = c})
LastWithCode(list, c) ==
    list[CHOOSE i \in 1..Len(list) :
            /\ list[i].course_code = c
            /\ \A j \in (i + 1)..Len(list) : list[j].course_code # c]
FirstOccurrences(codes) ==
    LET idx == {i \in 1..Len(codes) : \A j \in 1..(i - 1) : codes[j] # codes[i]}
        nth(k) == CHOOSE i \in idx : Cardinality({j \in idx : j < i}) = k - 1
    IN  [k \in 1..Cardinality(idx) |-> codes[nth(k)]]
SameOperatorFields(r1, r2) == \A f \in OperatorFields : r1[f] = r2[f]

\* the README as the run read it
ReadmeCourses ==
    FirstOccurrences([i \in 1..Len(readme.rows) |-> FirstSegment(readme.rows[i].code_raw)])
InReadme(c) == \E k \in 1..Len(ReadmeCourses) : ReadmeCourses[k] = c
RowOf(c) ==
    readme.rows[CHOOSE i \in 1..Len(readme.rows) :
                   /\ FirstSegment(readme.rows[i].code_raw) = c
                   /\ \A j \in (i + 1)..Len(readme.rows) :
                         FirstSegment(readme.rows[j].code_raw) # c]
HasMapping(c) == \E i \in 1..Len(readme.links) : readme.links[i].label = RowOf(c).code_raw
MappedFolder(c) ==
    Unquote(readme.links[CHOOSE i \in 1..Len(readme.links) :
                            /\ readme.links[i].label = RowOf(c).code_raw
                            /\ \A j \in (i + 1)..Len(readme.links) :
                                  readme.links[j].label # RowOf(c).code_raw].path)
\* the folder the run scans for a README course, where there is one
IsSpecial(c) == c \in {cMTH1125, cHIS1123, cHIS1122, cMTH1126}
FolderOf(c) == IF IsSpecial(c) THEN c ELSE MappedFolder(c)
IsProcessed(c) ==
    /\ InReadme(c)
    /\ IsSpecial(c) \/ HasMapping(c)
    /\ FolderOf(c) \in DOMAIN dirs

(***************************************************************************)
(* C1  Idempotent rerun: a second run with the same input, against the     *)
(* unchanged repository and with the catalog the first run wrote as its    *)
(* existing output file, writes a catalog equal to the first run's: same   *)
(* records, same order, same buckets in the same order, same operator      *)
(* fields.                                                                 *)
(***************************************************************************)
C1_IdempotentRerun == last.rerun => files[last.out] = last.before

\* a rerun over a catalog with an updated record, a stale one and a created one
C1_Witness ==
    /\ last.rerun
    /\ Len(WrittenList) >= 3
    /\ \E i \in 1..Len(WrittenList) :
          /\ Len(WrittenList[i].modules) >= 2
          /\ WrittenList[i].description # ""

(***************************************************************************)
(* C2  Operator fields are never written by a run.  As stated, for every   *)
(* record of the loaded catalog the written catalog has a record with its  *)
(* course_code and its instructors, description, current_term, classes,    *)
(* grading_policy, textbooks and exam_dates.                               *)
(***************************************************************************)
C2_EveryLoadedRecordKept ==
    (AfterRun /\ last.before.state = "json") =>
        \A i \in 1..Len(LoadedList) :
            \E j \in 1..Len(files[last.out].data) :
                /\ files[last.out].data[j].course_code = LoadedList[i].course_code
                /\ SameOperatorFields(files[last.out].data[j], LoadedList[i])

(***************************************************************************)
(* C2, amended: every course code of the loaded catalog keeps, in the      *)
(* written catalog, the operator fields of the last loaded record with     *)
(* that code, whether the course is processed, skipped or not in the       *)
(* README; and after any number of runs course.json still holds, code by   *)
(* code, what the operator last put there.                                 *)
(***************************************************************************)
KeepsOperatorFields(old, new) ==
    old.state = "json" =>
        /\ new.state = "json"
        /\ \A i \in 1..Len(old.data) :
              LET c == old.data[i].course_code
              IN  /\ Occurs(new.data, c)
                  /\ SameOperatorFields(LastWithCode(new.data, c), LastWithCode(old.data, c))

C2_OperatorFieldsKept ==
    /\ AfterRun => KeepsOperatorFields(last.before, files[last.out])
    /\ KeepsOperatorFields(baseline, files[CliOutput])

\* second run in a row over a catalog with a processed and a stale hand-edited record
C2_Witness ==
    /\ Wrote
    /\ runs >= 2
    /\ \E i, j \in 1..Len(LoadedList) :
          /\ IsProcessed(LoadedList[i].course_code)
          /\ LoadedList[i].description # ""
          /\ ~InReadme(LoadedList[j].course_code)
          /\ LoadedList[j].description # ""

(***************************************************************************)
(* The bucket a file belongs to by its place in the course folder; 'p' is  *)
(* the file's path below the folder.                                       *)
(***************************************************************************)
ExpectedBucket(p) ==
    IF Len(p) = 1 THEN "none"
    ELSE LET top == LowerStr(p[1])
             base == LowerStr(p[Len(p)])
         IN  IF top = sModulesLower THEN "modules"
             ELSE IF top = sReferencesLower THEN "reference_materials"
             ELSE IF top = sSyllabiLower THEN "syllabi"
             ELSE IF top = sAssignmentsLower
             THEN IF Len(base) >= 4 /\ SubSeq(base, 1, 4) = sExamLower
                  THEN "exams" ELSE "assignments"
             ELSE "none"
FilesOnDisk(folder, b) == {RelPath(p) : p \in {q \in dirs[folder] : ExpectedBucket(q) = b}}
EntryNames(record, b) ==
    IF b \in LinkBuckets
    THEN {record[b][i].filename : i \in 1..Len(record[b])}
    ELSE {record[b][i] : i \in 1..Len(record[b])}

(***************************************************************************)
(* C3  Update of an existing record: for a README course whose folder      *)
(* resolves and whose code has a record in the loaded catalog, the written *)
(* record has the course_code, title, credits and prerequisites parsed     *)
(* from the README in this run, and each bucket holds exactly one entry    *)
(* per file that the scan finds on disk for it; an entry of the loaded     *)
(* record whose file is gone is not in the written record.                 *)
(***************************************************************************)
C3_ExistingRecordUpdated ==
    Wrote =>
        \A i \in 1..Len(LoadedList) :
            LET c == LoadedList[i].course_code
            IN  IsProcessed(c) =>
                    LET w == LastWithCode(WrittenList, c)
                        parsed == DictGet(parse_course_table_from_readme(readme), c)
                    IN  /\ w.course_code = c
                        /\ w.title = parsed.title
                        /\ w.credits = parsed.credits
                        /\ w.prerequisites = parsed.prerequisites
                        /\ \A b \in Buckets :
                              /\ EntryNames(w, b) = FilesOnDisk(FolderOf(c), b)
                              /\ Len(w[b]) = Cardinality(FilesOnDisk(FolderOf(c), b))

\* a loaded record with an entry whose file is gone, updated from a changed README row
C3_Witness ==
    /\ Wrote
    /\ \E i \in 1..Len(LoadedList) :
          LET old == LoadedList[i]
          IN  /\ IsProcessed(old.course_code)
              /\ old = LastWithCode(LoadedList, old.course_code)
              /\ old.title # LastWithCode(WrittenList, old.course_code).title
              /\ EntryNames(old, "modules") \ FilesOnDisk(FolderOf(old.course_code), "modules")
                    # {}
              /\ FilesOnDisk(FolderOf(old.course_code), "modules") # {}

(***************************************************************************)
(* C4  Skip-on-missing-folder.  As stated: when a README course has no     *)
(* folder mapping for its full code, or the resolved path is not a         *)
(* directory, the run creates no record for the code and leaves a loaded   *)
(* record for it unchanged.                                                *)
(***************************************************************************)
LeftAlone(c) ==
    IF Occurs(LoadedList, c)
    THEN LastWithCode(WrittenList, c) = LastWithCode(LoadedList, c)
    ELSE ~Occurs(WrittenList, c)

C4_NoMappingNoRecord ==
    Wrote =>
        \A k \in 1..Len(ReadmeCourses) :
            LET c == ReadmeCourses[k]
            IN  (~HasMapping(c) \/ FolderOf(c) \notin DOMAIN dirs) => LeftAlone(c)

(***************************************************************************)
(* C4, amended: a README course is skipped when it is outside the four     *)
(* special codes and has no folder mapping for its full code, when it has  *)
(* a special code and the repository root has no entry of that name, or    *)
(* when the resolved path is not a directory.  The run creates no record   *)
(* for a skipped code and leaves the loaded record for it unchanged in     *)
(* every field; it still processes every other README course, and a run    *)
(* that nothing else stops writes the catalog.                             *)
(***************************************************************************)
IsSkipped(c) ==
    \/ ~IsSpecial(c) /\ ~HasMapping(c)
    \/ IsSpecial(c) /\ c \notin DOMAIN dirs \cup rootFiles
    \/ FolderOf(c) \notin DOMAIN dirs

NothingElseStops ==
    /\ env.remote => env.lfs /\ env.cloneOk
    /\ readme.state = "text"
    /\ last.before.state # "malformed"
    /\ env.writable

C4_SkipOnMissingFolder ==
    /\ (AfterRun /\ NothingElseStops) => last.status = "ok"
    /\ Wrote =>
          \A k \in 1..Len(ReadmeCourses) :
              LET c == ReadmeCourses[k]
              IN  IF IsSkipped(c)
                  THEN LeftAlone(c)
                  ELSE /\ Occurs(WrittenList, c)
                       /\ LastWithCode(WrittenList, c).title = RowOf(c).title
                       /\ \A b \in Buckets :
                             EntryNames(LastWithCode(WrittenList, c), b)
                                = FilesOnDisk(FolderOf(c), b)

\* a loaded record's course is skipped, a course after it in the README is processed
C4_Witness ==
    /\ Wrote
    /\ \E k1, k2 \in 1..Len(ReadmeCourses) :
          /\ k1 < k2
          /\ IsSkipped(ReadmeCourses[k1])
          /\ Occurs(LoadedList, ReadmeCourses[k1])
          /\ ~IsSkipped(ReadmeCourses[k2])
          /\ Occurs(WrittenList, ReadmeCourses[k2])

(***************************************************************************)
(* C5  Run-fatal errors write no catalog: a run that ends on a missing     *)
(* git-lfs tool for a remote input, on a clone failure or on an absent     *)
(* README.md leaves the output file exactly as it was before the run,      *)
(* absent if it was absent.                                                *)
(***************************************************************************)
C5_FatalRunWritesNothing ==
    (AfterRun /\ last.status \in FatalStatuses) => files[last.out] = last.before

\* a run over an existing catalog ends on the missing git-lfs tool
C5_Witness ==
    /\ AfterRun
    /\ last.status = "nolfs"
    /\ last.before.state = "json"
    /\ files[last.out].state = "json"

(***************************************************************************)
(* C6  Directory-based classification: in the record of every processed    *)
(* course, a file of the course folder is listed in a bucket exactly when  *)
(* that bucket is the one its top-level directory names, compared without  *)
(* regard to case (exams for a file under assignments whose base name      *)
(* starts with "exam" in any case, assignments for the others), so in at   *)
(* most one bucket, and in none for a file in the course root or under     *)
(* another directory.                                                      *)
(***************************************************************************)
C6_DirectoryClassification ==
    Wrote =>
        \A k \in 1..Len(ReadmeCourses) :
            LET c == ReadmeCourses[k]
            IN  IsProcessed(c) =>
                    \A p \in dirs[FolderOf(c)] : \A b \in Buckets :
                        (RelPath(p) \in EntryNames(LastWithCode(WrittenList, c), b))
                            <=> (b = ExpectedBucket(p))

\* one processed folder holds an exam and another file under Assignments, some
\* processed folder a file in its root
C6_Witness ==
    /\ Wrote
    /\ \E k \in 1..Len(ReadmeCourses) :
          /\ IsProcessed(ReadmeCourses[k])
          /\ {<<sAssignments, sExam1>>, <<sAssignments, sHW1>>}
                \subseteq dirs[FolderOf(ReadmeCourses[k])]
    /\ \E k \in 1..Len(ReadmeCourses) :
          /\ IsProcessed(ReadmeCourses[k])
          /\ <<sExam1>> \in dirs[FolderOf(ReadmeCourses[k])]

(***************************************************************************)
(* C7  Bucket output is deduplicated and sorted: in every processed record *)
(* of the written catalog, modules, reference_materials and syllabi have   *)
(* no two entries with the same (filename, raw_link) pair and ascend by    *)
(* filename; assignments and exams have no repeated path and ascend;       *)
(* whatever the order of the directory walk.                               *)
(***************************************************************************)
C7_BucketsDedupSorted ==
    Wrote =>
        \A k \in 1..Len(ReadmeCourses) :
            LET c == ReadmeCourses[k]
            IN  IsProcessed(c) =>
                    LET w == LastWithCode(WrittenList, c)
                    IN  /\ \A b \in LinkBuckets : \A i, j \in 1..Len(w[b]) :
                              i < j =>
                                  /\ StrLeq(w[b][i].filename, w[b][j].filename)
                                  /\ \/ w[b][i].filename # w[b][j].filename
                                     \/ w[b][i].raw_link # w[b][j].raw_link
                        /\ \A b \in PathBuckets : \A i, j \in 1..Len(w[b]) :
                              i < j => StrLess(w[b][i], w[b][j])

\* a processed record with two modules and two exams, the exams in two directories
C7_Witness ==
    /\ Wrote
    /\ \E k \in 1..Len(ReadmeCourses) :
          /\ IsProcessed(ReadmeCourses[k])
          /\ Len(LastWithCode(WrittenList, ReadmeCourses[k]).exams) >= 2
    /\ \E k \in 1..Len(ReadmeCourses) :
          /\ IsProcessed(ReadmeCourses[k])
          /\ Len(LastWithCode(WrittenList, ReadmeCourses[k]).modules) >= 2

(***************************************************************************)
(* C8  Output order and record persistence.  As stated, no run removes a   *)
(* record: the written catalog has at least as many records of a course    *)
(* code as the loaded one.                                                 *)
(***************************************************************************)
C8_NoRecordRemoved ==
    Wrote =>
        \A i \in 1..Len(LoadedList) :
            CountOf(WrittenList, LoadedList[i].course_code)
                >= CountOf(LoadedList, LoadedList[i].course_code)

(***************************************************************************)
(* C8, amended: the written catalog lists every course code of the loaded  *)
(* catalog once, codes no longer in the README included, in the order of   *)
(* their first occurrence in the loaded file, followed by the records      *)
(* created in this run in the order the README lists their courses; no run *)
(* removes the record of a code, and a record whose course is not          *)
(* processed is the last loaded record with its code.                      *)
(***************************************************************************)
NewCodes ==
    SelectSeq(ReadmeCourses, LAMBDA c : IsProcessed(c) /\ ~Occurs(LoadedList, c))

C8_OutputOrder ==
    Wrote =>
        /\ CodesOf(WrittenList) = FirstOccurrences(CodesOf(LoadedList)) \o NewCodes
        /\ \A i \in 1..Len(LoadedList) :
              ~IsProcessed(LoadedList[i].course_code) =>
                  LastWithCode(WrittenList, LoadedList[i].course_code)
                      = LastWithCode(LoadedList, LoadedList[i].course_code)

\* a loaded catalog with a code that left the README, and two records created
C8_Witness ==
    /\ Wrote
    /\ \E i \in 1..Len(LoadedList) : ~InReadme(LoadedList[i].course_code)
    /\ Len(NewCodes) >= 2
    /\ Len(WrittenList) >= 4

(***************************************************************************)
(* C9  course_code is unique in the written catalog: after a completed run *)
(* no two records of the written catalog have the same course_code; of     *)
(* several loaded records with one code the last is the one that survives: *)
(* the written record is that record if the course is not processed, and   *)
(* has its operator fields if it is.                                       *)
(***************************************************************************)
C9_CourseCodeUnique ==
    Wrote =>
        /\ \A i, j \in 1..Len(WrittenList) :
              WrittenList[i].course_code = WrittenList[j].course_code => i = j
        /\ \A i \in 1..Len(LoadedList) :
              LET c == LoadedList[i].course_code
              IN  CountOf(LoadedList, c) >= 2 =>
                      /\ SameOperatorFields(LastWithCode(WrittenList, c),
                                            LastWithCode(LoadedList, c))
                      /\ ~IsProcessed(c) =>
                             LastWithCode(WrittenList, c) = LastWithCode(LoadedList, c)

\* the loaded file held two records of one code that differ in their operator fields
C9_Witness ==
    /\ Wrote
    /\ \E i, j \in 1..Len(LoadedList) :
          /\ i < j
          /\ LoadedList[i].course_code = LoadedList[j].course_code
          /\ ~SameOperatorFields(LoadedList[i], LoadedList[j])

(***************************************************************************)
(* C10  Programmatic entry point: each call of run_course_loader either    *)
(* returns the catalog list that this call's run wrote to the temporary    *)
(* output file, or raises; a call whose run ends on a run-fatal error      *)
(* wrote nothing and so raises, also after an earlier call succeeded.      *)
(***************************************************************************)
C10_ReturnsThisCallsCatalog ==
    last.op = "loader" =>
        IF last.status = "ok"
        THEN last.ret = [kind |-> "returned", value |-> files[TempOutput].data]
        ELSE last.ret.kind = "raised"

(***************************************************************************)
(* C11  Legacy variant merges into an existing catalog: when the output    *)
(* file exists at the start of a run of meta.py, every README course whose *)
(* folder resolves is processed as when the file is absent: its record in  *)
(* the written catalog has the course_code, title, credits and             *)
(* prerequisites of the README and the chapters, books, assignments and    *)
(* exams of the current scan, and a code without a record gets a record.   *)
(***************************************************************************)
MetaResolves(c) == InReadme(c) /\ HasMapping(c) /\ MappedFolder(c) \in DOMAIN dirs
\* the record the run writes for a course when it finds no output file
FreshRecord(c) ==
    LastWithCode(MetaMergedCatalog(readme, dirs, Absent, CHOOSE w \in AllWalks : TRUE), c)

C11_LegacyMergesExisting ==
    (last.op = "meta" /\ last.status = "ok" /\ last.before.state = "json") =>
        \A k \in 1..Len(ReadmeCourses) :
            LET c == ReadmeCourses[k]
            IN  MetaResolves(c) =>
                    /\ Occurs(files[CliOutput].data, c)
                    /\ LET w == LastWithCode(files[CliOutput].data, c)
                           fresh == FreshRecord(c)
                       IN  /\ w.course_code = fresh.course_code
                           /\ w.title = fresh.title
                           /\ w.credits = fresh.credits
                           /\ w.prerequisites = fresh.prerequisites
                           /\ \A b \in {"chapters", "books", "assignments", "exams"} :
                                 w.files[b] = fresh.files[b]

(***************************************************************************)
(* C12  Temporary clone directory is always removed: whichever way a run   *)
(* of courseLoader.extract_course_metadata ends, no temporary directory    *)
(* that it created still exists; a run on a local path creates none.       *)
(***************************************************************************)
C12_TempDirRemoved == tempDirs = 0

====
